---- MODULE Spec2Model ----
(***************************************************************************)
(* Hough voting layer of PoseCNN (lib/hough_voting_layer/hough_voting_op.cc)*)
(*                                                                         *)
(* The model follows one call of estimateCenter for image n of the batch   *)
(* and the tail of HoughvotingOp::Compute that copies the detections out   *)
(* and encodes the training targets.  The loops marked                     *)
(* "#pragma omp parallel for" are modelled as sets of tasks that run in    *)
(* any order; a parallel loop ends with OpenMP's implicit barrier.         *)
(* Geometry is abstracted: a hypothesis's centre is the kind of estimate   *)
(* it holds ("sampled" from two pixels by the sampler, or "refit" from the *)
(* inliers), pixel lists are represented by their lengths, and             *)
(* box coordinates are integers chosen so that the 0.1 and 0.05 factors    *)
(* of the code divide exactly.  LabelSpec and CountSpec follow getLabels   *)
(* and countInliers2D with updateHyp2D pixel by pixel on small images,     *)
(* CullSpec the sort and erase of one bucket, LoopSpec the while loop on   *)
(* buckets larger than the sampling of Spec leaves.                        *)
(***************************************************************************)
EXTENDS Integers, Sequences, FiniteSets, TLC

VARIABLES
  n,            \* batch index of the image estimateCenter is called for
  outputs,      \* storage of std::vector<cv::Vec<float,13>> outputs of Compute
  finish,       \* its end: the elements of the vector are outputs[1..finish]
  labelmap,     \* pixels carrying each class id in the label map (input)
  labels,       \* length of labels[c], the per-class pixel lists
  object_ids,   \* classes passing the minimum area, in increasing order
  slot,         \* per sampling slot h: position, sampled class, end read
  lock,         \* holder of the omp critical section, 0 when free
  hypMap,       \* std::map<id, std::vector<TransHyp>>
  objList,      \* keys of hypMap after sampling
  workingQueue, \* std::vector<TransHyp*>: addresses into hypMap
  pc,           \* position of the main thread
  pending,      \* tasks of each parallel loop that have not yet run
  staleUse,     \* a task dereferenced an address that no longer holds its hypothesis
  rounds,       \* passes made through the body of the while loop
  task,         \* per class: state of the result task of that map entry
  poses_gt,     \* ground truth records read by compute_target_weight
  top_box, top_pose, top_target, top_weight,
  label_map,    \* getLabels followed pixel by pixel: class id of each pixel
  labelLists,   \* getLabels followed pixel by pixel: storage and end of each labels[c]
  labelTask,    \* per column x of the image: position of the task of getLabels
  countCall,    \* countInliers2D followed pixel by pixel: the hypothesis and the locals
  cullCall      \* the sort and erase of one bucket: the bucket before and after

\* the state of the specifications of single stages (LabelSpec, CountSpec,
\* CullSpec)
stageVars == << label_map, labelLists, labelTask, countCall, cullCall >>

vars == << n, outputs, finish, labelmap, labels, object_ids, slot, lock, hypMap, objList,
           workingQueue, pc, pending, staleUse, rounds, task, poses_gt,
           top_box, top_pose, top_target, top_weight, stageVars >>

(***************************************************************************)
(* Parameters set at the top of estimateCenter                             *)
(***************************************************************************)
minArea == 400
refIt == 8
maxPixels == 1000
preemptiveBatch == 1000

(***************************************************************************)
(* Bounds of the model                                                     *)
(***************************************************************************)
\* number of classes including the background class 0
num_classes == 3
\* sampling slots followed (the code runs ransacIterations of them)
MaxSlots == 3
\* images in the batch
MaxBatch == 2
\* ground truth records
MaxGt == 1
\* push_backs of one pixel list a racing getLabels may lose
MaxLost == 2
\* passes through the while loop that are counted (the loop of the code makes
\* refIt of them for up to 2^refIt hypotheses of a class)
MaxRounds == 10

Classes == 0 .. (num_classes - 1)
Slots == 1 .. MaxSlots
\* pixels in one image (64 x 64)
ImagePixels == 64 * 64
\* pixel counts a foreground class is given: none, below, at and above minArea
PixelCounts == {0, minArea - 1, minArea, minArea + 1}
\* inlier counts a count of one hypothesis may return
InlierCounts == {3, 4}

Range(s) == {s[i] : i \in DOMAIN s}

(***************************************************************************)
(* getLabels                                                               *)
(***************************************************************************)
\* label maps: the foreground classes take counts from PixelCounts, the
\* background takes the rest of the image
RECURSIVE SumOver(_, _)
SumOver(f, S) ==
  IF S = {} THEN 0
  ELSE LET c == CHOOSE x \in S : TRUE IN f[c] + SumOver(f, S \ {c})

LabelMaps ==
  { [ c \in Classes |-> IF c = 0 THEN ImagePixels - SumOver(fg, DOMAIN fg) ELSE fg[c] ] :
      fg \in [Classes \ {0} -> PixelCounts] }

\* mutation: no threshold on the size of a pixel list
PassesAnyArea(size) == size >= 0

\* the threshold test of getLabels
PassesMinArea(size) == size > minArea

\* mutation: the loop over the pixel lists starts at the background class
FirstObjectIsBackground == 1 - 1

\* first class id getLabels considers
FirstObject == 1

RECURSIVE ObjectIdsFrom(_, _)
ObjectIdsFrom(i, sizes) ==
  IF i >= num_classes THEN << >>
  ELSE IF PassesMinArea(sizes[i])
       THEN << i >> \o ObjectIdsFrom(i + 1, sizes)
       ELSE ObjectIdsFrom(i + 1, sizes)

ObjectIds(sizes) == ObjectIdsFrom(FirstObject, sizes)

(***************************************************************************)
(* TransHyp                                                                *)
(***************************************************************************)
\* a freshly constructed hypothesis of class c made by slot h
NewHyp(h, c) ==
  [ id |-> h, objID |-> c, center |-> "sampled", inliers |-> 0, nPts |-> 0,
    effPixels |-> 0, maxPixels |-> 0, refSteps |-> 0 ]

Keys(m) == DOMAIN m

\* hypMap[objID] with operator[]'s insertion of a missing key
At(m, c) == IF c \in DOMAIN m THEN m[c] ELSE << >>

Put(m, c, v) == [ k \in (DOMAIN m) \cup {c} |-> IF k = c THEN v ELSE m[k] ]

RECURSIVE Ascending(_)
Ascending(S) ==
  IF S = {} THEN << >>
  ELSE LET m == CHOOSE x \in S : \A y \in S : x <= y
       IN << m >> \o Ascending(S \ {m})

(***************************************************************************)
(* getWorkingQueue                                                         *)
(***************************************************************************)
\* a queue entry is the address of element idx of hypMap[obj]; id records the
\* hypothesis that lived there when the address was taken
Address(m, c, h) == [ obj |-> c, idx |-> h, id |-> m[c][h].id ]

\* mutation: the refinement count of a lone hypothesis is not looked at
StillToProcessManyOnly(m, c, h, maxIt) == Len(m[c]) > 1

\* the test of getWorkingQueue on element h of class c
\* mutation: refSteps <= maxIt, a lone hypothesis is refined once more
StillToProcessUpToMaxIt(m, c, h, maxIt) == Len(m[c]) > 1 \/ m[c][h].refSteps <= maxIt

StillToProcess(m, c, h, maxIt) == Len(m[c]) > 1 \/ m[c][h].refSteps < maxIt

RECURSIVE QueueOfClass(_, _, _, _)
QueueOfClass(m, c, h, maxIt) ==
  IF h > Len(m[c]) THEN << >>
  ELSE (IF StillToProcess(m, c, h, maxIt) THEN << Address(m, c, h) >> ELSE << >>)
         \o QueueOfClass(m, c, h + 1, maxIt)

RECURSIVE QueueOfClasses(_, _, _)
QueueOfClasses(m, cs, maxIt) ==
  IF cs = << >> THEN << >>
  ELSE QueueOfClass(m, Head(cs), 1, maxIt) \o QueueOfClasses(m, Tail(cs), maxIt)

getWorkingQueue(m, maxIt) == QueueOfClasses(m, Ascending(Keys(m)), maxIt)

\* whether the address still holds the hypothesis it was taken for
Live(m, p) ==
  /\ p.obj \in DOMAIN m
  /\ p.idx <= Len(m[p.obj])
  /\ m[p.obj][p.idx].id = p.id

\* a store through the address (a store past the end of the vector lands in
\* storage that is no longer part of it)
Store(m, p, hyp) ==
  IF p.obj \in DOMAIN m /\ p.idx <= Len(m[p.obj])
  THEN [ m EXCEPT ![p.obj][p.idx] = hyp ]
  ELSE m

\* a load through the address
Load(m, p) ==
  IF p.obj \in DOMAIN m /\ p.idx <= Len(m[p.obj])
  THEN m[p.obj][p.idx]
  ELSE NewHyp(p.id, p.obj)

(***************************************************************************)
(* countInliers2D, filterInliers2D, updateHyp2D                            *)
(***************************************************************************)
\* pixels one call may examine: every pixel of the class when the budget
\* covers the class, otherwise what the skip sampling leaves (at least the
\* first pixel)
EffPixelChoices(budget, maxPt) ==
  IF budget >= maxPt THEN {maxPt} ELSE 1 .. maxPt

\* the pixel budget after one more batch (counted up to MaxRounds batches)
NextBudget(budget, pixelBatch) ==
  IF budget + pixelBatch > MaxRounds * pixelBatch THEN budget ELSE budget + pixelBatch

\* the call with eff pixels examined of which inl passed the inlier check
countInliers2D(hyp, pixelBatch, eff, inl) ==
  [ hyp EXCEPT !.nPts = inl, !.inliers = inl, !.effPixels = eff,
               !.maxPixels = NextBudget(hyp.maxPixels, pixelBatch) ]

filterInliers2D(hyp, maxInliers) ==
  IF hyp.nPts < maxInliers THEN hyp ELSE [ hyp EXCEPT !.nPts = maxInliers ]

\* fewest correspondences updateHyp2D refits a centre from
MinInlierPts == 4

\* mutation: no early return for fewer than MinInlierPts correspondences
updateHyp2DAlwaysFits(hyp, maxInliers) ==
  [ filterInliers2D(hyp, maxInliers) EXCEPT !.center = "refit" ]

updateHyp2D(hyp, maxInliers) ==
  IF hyp.nPts < MinInlierPts THEN hyp
  ELSE [ filterInliers2D(hyp, maxInliers) EXCEPT !.center = "refit" ]

\* mutation: refSteps is counted inside updateHyp2D, past its early return
RefineStepCountsFits(hyp, maxInliers) ==
  LET u == updateHyp2D(hyp, maxInliers)
  IN IF hyp.nPts < MinInlierPts THEN u ELSE [ u EXCEPT !.refSteps = u.refSteps + 1 ]

\* the body of the refine loop: updateHyp2D, then refSteps++
RefineStep(hyp, maxInliers) ==
  LET u == updateHyp2D(hyp, maxInliers)
  IN [ u EXCEPT !.refSteps = u.refSteps + 1 ]

(***************************************************************************)
(* sort and erase of one class                                             *)
(***************************************************************************)
\* TransHyp::operator< : a ranks before b
RanksBefore(a, b) == a.inliers > b.inliers

\* mutation: the sort is left out, the vector stays in insertion order
SortedOrdersAsInserted(v) == { [ i \in 1 .. Len(v) |-> i ] }

\* the orders std::sort may leave (it is not a stable sort)
SortedOrders(v) ==
  { p \in [ 1 .. Len(v) -> 1 .. Len(v) ] :
      /\ \A i, j \in 1 .. Len(v) : i # j => p[i] # p[j]
      /\ \A i, j \in 1 .. Len(v) : i < j => ~ RanksBefore(v[p[j]], v[p[i]]) }

\* mutation: erase from begin() + (size() + 1) / 2
KeptAfterEraseRoundedUp(size) == size - size \div 2

\* mutation: erase from end(), nothing is discarded
KeptAfterEraseNothing(size) == size

\* elements erase() leaves of a sorted vector of n elements
KeptAfterErase(size) == size \div 2

\* mutation: erase(begin(), begin() + size() / 2), the front is discarded
CullClassKeepsTail(v, p) ==
  [ i \in 1 .. KeptAfterErase(Len(v)) |-> v[p[Len(v) - KeptAfterErase(Len(v)) + i]] ]

CullClass(v, p) == [ i \in 1 .. KeptAfterErase(Len(v)) |-> v[p[i]] ]

(***************************************************************************)
(* result assembly                                                         *)
(***************************************************************************)
\* poses the optimiser may return
PoseVecs == 1 .. 2

\* getBB2D: the box the class's 3D box projects to under the pose
getBB2D(c, vec) ==
  [ x |-> 10 * c, y |-> 20 * vec, width |-> 50 * vec, height |-> 50 * (c + 1) ]

\* the roi pushed first (roi(0), roi(1), roi(2..5), roi(6..12))
PrimaryRoi(batch, c, vec) ==
  LET bb == getBB2D(c, vec)
  IN [ batch |-> batch, cls |-> c,
       x1 |-> bb.x - bb.width \div 10,
       y1 |-> bb.y - bb.height \div 10,
       x2 |-> bb.x + (11 * bb.width) \div 10,
       y2 |-> bb.y + (11 * bb.height) \div 10,
       pose |-> vec ]

\* one jittered roi: roi(2), roi(3) are set, roi(4) is assigned twice and
\* roi(5) is left as it was
JitterRoi(roi, sx, sy) ==
  LET w == roi.x2 - roi.x1
      h == roi.y2 - roi.y1
      r2 == roi.x1 + sx * (w \div 20)
      r3 == roi.y1 + sy * (h \div 20)
  IN [ roi EXCEPT !.x1 = r2, !.y1 = r3, !.x2 = r3 + h ]

\* the five rois one hypothesis pushes, in order
Rois(batch, c, vec) ==
  LET r == PrimaryRoi(batch, c, vec)
  IN << r, JitterRoi(r, -1, -1), JitterRoi(r, 1, -1),
           JitterRoi(r, -1, 1), JitterRoi(r, 1, 1) >>

(***************************************************************************)
(* compute_target_weight                                                   *)
(***************************************************************************)
\* mutation: the target fields are read after six auxiliary fields
GtTargetOffsetAfterSix == 2 + 6

\* fields of a ground truth record
GtFields == 13
\* field of a record the first target slot is read from
GtTargetOffset == 6

\* record j of the list: batch b, class c, every other field distinct
GtRecord(j, b, c) ==
  [ f \in 0 .. (GtFields - 1) |->
      IF f = 0 THEN b ELSE IF f = 1 THEN c ELSE 100 * j + f ]

GtMatches(roi, g) == roi.cls = g[1] /\ roi.batch = g[0]

\* index of the first record matching the roi, 0 when there is none
RECURSIVE GtIndexFrom(_, _, _)
GtIndexFrom(roi, gts, j) ==
  IF j > Len(gts) THEN 0
  ELSE IF GtMatches(roi, gts[j]) THEN j
  ELSE GtIndexFrom(roi, gts, j + 1)

GtIndex(roi, gts) == GtIndexFrom(roi, gts, 1)

\* mutation: the row is indexed as if class ids started at 1
SlotOffsetFromOne(c) == 4 * (c - 1)

\* first slot of the row written for class c
SlotOffset(c) == 4 * c

TargetRow(roi, gts) ==
  LET g == GtIndex(roi, gts)
  IN [ s \in 0 .. (4 * num_classes - 1) |->
         IF g # 0 /\ s >= SlotOffset(roi.cls) /\ s < SlotOffset(roi.cls) + 4
         THEN gts[g][GtTargetOffset + (s - SlotOffset(roi.cls))]
         ELSE 0 ]

WeightRow(roi, gts) ==
  LET g == GtIndex(roi, gts)
  IN [ s \in 0 .. (4 * num_classes - 1) |->
         IF g # 0 /\ s >= SlotOffset(roi.cls) /\ s < SlotOffset(roi.cls) + 4
         THEN 1 ELSE 0 ]

(***************************************************************************)
(* State                                                                   *)
(***************************************************************************)
IdleSlot == [ pc |-> "idle", objID |-> 0, end |-> 0 ]
NoPending == [ count |-> {}, cull |-> {}, refine |-> {} ]

\* what the calls of estimateCenter for the images before n have left in
\* outputs: nothing for the first image, otherwise the five rois of one
\* hypothesis of class 1 found in the image before
EarlierOutputs(batch) ==
  IF batch = 0 THEN { << >> } ELSE { Rois(batch - 1, 1, 1) }

\* Spec and ResultSpec follow getLabels and countInliers2D by their results
\* only; the pixel by pixel state is not in use
IdleCall == [ pc |-> "unused" ]
StageUnused ==
  /\ label_map = << >>
  /\ labelLists = << >>
  /\ labelTask = << >>
  /\ countCall = IdleCall
  /\ cullCall = IdleCall

Init ==
  /\ StageUnused
  /\ n \in 0 .. (MaxBatch - 1)
  /\ outputs \in EarlierOutputs(n)
  /\ finish = Len(outputs)
  /\ labelmap \in LabelMaps
  /\ labels = [ c \in Classes |-> 0 ]
  /\ object_ids = << >>
  /\ slot = [ h \in Slots |-> IdleSlot ]
  /\ lock = 0
  /\ hypMap = << >>
  /\ objList = << >>
  /\ workingQueue = << >>
  /\ pc = "estimateCenter"
  /\ pending = NoPending
  /\ staleUse = FALSE
  /\ rounds = 0
  /\ task = << >>
  /\ poses_gt = << >>
  /\ top_box = << >>
  /\ top_pose = << >>
  /\ top_target = << >>
  /\ top_weight = << >>

(***************************************************************************)
(* estimateCenter: labels and the early return                             *)
(***************************************************************************)
\* lengths the pixel list of a class with count pixels may end with: the
\* push_backs of getLabels run unsynchronised in its parallel loop, so some
\* may be lost; of the shorter lengths those of PixelCounts are followed
BucketChoices(count) ==
  { s \in {count} \cup PixelCounts : s <= count /\ s >= count - MaxLost }

BucketSizes(lm) ==
  { sz \in [ Classes -> UNION { BucketChoices(lm[c]) : c \in Classes } ] :
      \A c \in Classes : sz[c] \in BucketChoices(lm[c]) }

getLabels ==
  /\ pc = "estimateCenter"
  /\ \E sz \in BucketSizes(labelmap) :
       /\ labels' = sz
       /\ object_ids' = ObjectIds(sz)
       /\ pc' = IF ObjectIds(sz) = << >> THEN "exit" ELSE "sample"
       /\ slot' = IF ObjectIds(sz) = << >> THEN slot
                  ELSE [ h \in Slots |-> [ IdleSlot EXCEPT !.pc = "sample" ] ]
  /\ UNCHANGED << stageVars, n, outputs, finish, labelmap, lock, hypMap, objList, workingQueue,
                  pending, staleUse, rounds, task, poses_gt,
                  top_box, top_pose, top_target, top_weight >>

(***************************************************************************)
(* estimateCenter: sampling of the initial hypotheses                      *)
(***************************************************************************)
\* one pass of the body of slot h up to the critical section
Sample(h) ==
  /\ pc = "sample"
  /\ slot[h].pc = "sample"
  /\ \E k \in 1 .. Len(object_ids) :
       LET objID == object_ids[k]
       IN slot' = IF objID = 0 THEN slot
                  ELSE [ slot EXCEPT ![h] = [ pc |-> "ready", objID |-> objID, end |-> 0 ] ]
  /\ UNCHANGED << stageVars, n, outputs, finish, labelmap, labels, object_ids, lock, hypMap,
                  objList, workingQueue, pc, pending, staleUse, rounds, task,
                  poses_gt, top_box, top_pose, top_target, top_weight >>

\* mutation: the insert is not in a critical section
CriticalAlwaysFree == TRUE

\* omp critical: a thread enters when no other thread is inside
CriticalFree == lock = 0

\* entry of the critical section; push_back reads the end of hypMap[objID]
Enter(h) ==
  /\ pc = "sample"
  /\ slot[h].pc = "ready"
  /\ CriticalFree
  /\ lock' = h
  /\ slot' = [ slot EXCEPT ![h].pc = "inside",
                           ![h].end = Len(At(hypMap, slot[h].objID)) ]
  /\ UNCHANGED << stageVars, n, outputs, finish, labelmap, labels, object_ids, hypMap,
                  objList, workingQueue, pc, pending, staleUse, rounds, task,
                  poses_gt, top_box, top_pose, top_target, top_weight >>

\* push_back stores the hypothesis at the end it read; the section is left
Push(h) ==
  /\ pc = "sample"
  /\ slot[h].pc = "inside"
  /\ LET c == slot[h].objID
         v == At(hypMap, c)
     IN hypMap' = Put(hypMap, c, Append(SubSeq(v, 1, slot[h].end), NewHyp(h, c)))
  /\ lock' = 0
  /\ slot' = [ slot EXCEPT ![h].pc = "done" ]
  /\ UNCHANGED << stageVars, n, outputs, finish, labelmap, labels, object_ids,
                  objList, workingQueue, pc, pending, staleUse, rounds, task,
                  poses_gt, top_box, top_pose, top_target, top_weight >>

\* mutation: the parallel loops do not wait for their tasks (nowait)
NoBarrier(tasks) == TRUE

\* the end of a parallel loop: every task of it has run
BarrierReached(tasks) == tasks = {}

\* end of the sampling loop; objList and the first working queue
SampleDone ==
  /\ pc = "sample"
  /\ BarrierReached({ h \in Slots : slot[h].pc # "done" })
  /\ objList' = Ascending(Keys(hypMap))
  /\ workingQueue' = getWorkingQueue(hypMap, refIt)
  /\ pc' = "while"
  /\ slot' = [ h \in Slots |-> IdleSlot ]
  /\ UNCHANGED << stageVars, n, outputs, finish, labelmap, labels, object_ids, lock,
                  hypMap, pending, staleUse, rounds, task, poses_gt,
                  top_box, top_pose, top_target, top_weight >>

(***************************************************************************)
(* estimateCenter: the preemptive RANSAC loop                              *)
(***************************************************************************)
NoTask == [ pc |-> "done", h |-> 0, k |-> 0, end |-> 0, rois |-> << >>, pushed |-> << >> ]

\* the test of the while loop; past the loop the result tasks are issued,
\* one for each entry of hypMap
WhileTest ==
  /\ pc = "while"
  /\ IF workingQueue = << >>
     THEN /\ pc' = "result"
          /\ task' = [ c \in Keys(hypMap) |-> [ NoTask EXCEPT !.pc = "pose", !.h = 1 ] ]
          /\ pending' = pending
     ELSE /\ pc' = "count"
          /\ task' = task
          /\ pending' = [ pending EXCEPT !.count = Range(workingQueue) ]
  /\ UNCHANGED << stageVars, n, outputs, finish, labelmap, labels, object_ids, slot, lock,
                  hypMap, objList, workingQueue, staleUse, rounds, poses_gt,
                  top_box, top_pose, top_target, top_weight >>

\* countInliers2D on one entry of the working queue
CountTask(p) ==
  /\ p \in pending.count
  /\ LET hyp == Load(hypMap, p)
     IN \E eff \in EffPixelChoices(NextBudget(hyp.maxPixels, preemptiveBatch), labels[p.obj]) :
          \E inl \in InlierCounts :
            /\ inl <= eff
            /\ hypMap' = Store(hypMap, p, countInliers2D(hyp, preemptiveBatch, eff, inl))
  /\ staleUse' = (staleUse \/ ~ Live(hypMap, p))
  /\ pending' = [ pending EXCEPT !.count = @ \ {p} ]
  /\ UNCHANGED << stageVars, n, outputs, finish, labelmap, labels, object_ids, slot, lock,
                  objList, workingQueue, pc, rounds, task, poses_gt,
                  top_box, top_pose, top_target, top_weight >>

CountDone ==
  /\ pc = "count"
  /\ BarrierReached(pending.count)
  /\ pc' = "cull"
  /\ pending' = [ pending EXCEPT !.cull = Range(objList) ]
  /\ UNCHANGED << stageVars, n, outputs, finish, labelmap, labels, object_ids, slot, lock,
                  hypMap, objList, workingQueue, staleUse, rounds, task, poses_gt,
                  top_box, top_pose, top_target, top_weight >>

\* sort and erase of the hypotheses of one object
CullTask(c) ==
  /\ c \in pending.cull
  /\ \E p \in SortedOrders(hypMap[c]) :
       hypMap' = IF Len(hypMap[c]) > 1
                 THEN [ hypMap EXCEPT ![c] = CullClass(hypMap[c], p) ]
                 ELSE hypMap
  /\ pending' = [ pending EXCEPT !.cull = @ \ {c} ]
  /\ UNCHANGED << stageVars, n, outputs, finish, labelmap, labels, object_ids, slot, lock,
                  objList, workingQueue, pc, staleUse, rounds, task, poses_gt,
                  top_box, top_pose, top_target, top_weight >>

\* mutation: the queue of the count loop is kept for the refine loop
QueueAfterCullKept(m, queue) == queue

\* workingQueue = getWorkingQueue(hypMap, refIt) after the cull loop
QueueAfterCull(m, queue) == getWorkingQueue(m, refIt)

CullDone ==
  /\ pc = "cull"
  /\ BarrierReached(pending.cull)
  /\ workingQueue' = QueueAfterCull(hypMap, workingQueue)
  /\ pc' = "refine"
  /\ pending' = [ pending EXCEPT !.refine = Range(QueueAfterCull(hypMap, workingQueue)) ]
  /\ UNCHANGED << stageVars, n, outputs, finish, labelmap, labels, object_ids, slot, lock,
                  hypMap, objList, staleUse, rounds, task, poses_gt,
                  top_box, top_pose, top_target, top_weight >>

\* updateHyp2D and refSteps++ on one entry of the working queue
RefineTask(p) ==
  /\ p \in pending.refine
  /\ hypMap' = Store(hypMap, p, RefineStep(Load(hypMap, p), maxPixels))
  /\ staleUse' = (staleUse \/ ~ Live(hypMap, p))
  /\ pending' = [ pending EXCEPT !.refine = @ \ {p} ]
  /\ UNCHANGED << stageVars, n, outputs, finish, labelmap, labels, object_ids, slot, lock,
                  objList, workingQueue, pc, rounds, task, poses_gt,
                  top_box, top_pose, top_target, top_weight >>

RefineDone ==
  /\ pc = "refine"
  /\ BarrierReached(pending.refine)
  /\ workingQueue' = getWorkingQueue(hypMap, refIt)
  /\ pc' = "while"
  /\ rounds' = IF rounds < MaxRounds THEN rounds + 1 ELSE rounds
  /\ UNCHANGED << stageVars, n, outputs, finish, labelmap, labels, object_ids, slot, lock,
                  hypMap, objList, pending, staleUse, task, poses_gt,
                  top_box, top_pose, top_target, top_weight >>

(***************************************************************************)
(* estimateCenter: the results                                             *)
(***************************************************************************)
\* pose optimisation of hypothesis h of class c and the rois it will push
ResultPose(c) ==
  /\ pc = "result"
  /\ c \in DOMAIN task
  /\ task[c].pc = "pose"
  /\ \E vec \in PoseVecs :
       task' = [ task EXCEPT ![c].pc = "read", ![c].k = 1,
                   ![c].rois = Rois(n, hypMap[c][task[c].h].objID, vec) ]
  /\ UNCHANGED << stageVars, n, outputs, finish, labelmap, labels, object_ids, slot, lock,
                  hypMap, objList, workingQueue, pc, pending, staleUse, rounds,
                  poses_gt, top_box, top_pose, top_target, top_weight >>

\* outputs.push_back reads the end of the vector
ResultRead(c) ==
  /\ pc = "result"
  /\ c \in DOMAIN task
  /\ task[c].pc = "read"
  /\ task' = [ task EXCEPT ![c].pc = "write", ![c].end = finish ]
  /\ UNCHANGED << stageVars, n, outputs, finish, labelmap, labels, object_ids, slot, lock,
                  hypMap, objList, workingQueue, pc, pending, staleUse, rounds,
                  poses_gt, top_box, top_pose, top_target, top_weight >>

\* position of the task after its k-th push
AfterPush(t, size) ==
  IF t.k < 5 THEN [ t EXCEPT !.pc = "read", !.k = t.k + 1 ]
  ELSE IF t.h < size THEN [ t EXCEPT !.pc = "pose", !.h = t.h + 1, !.k = 0 ]
  ELSE [ t EXCEPT !.pc = "done" ]

\* outputs.push_back stores the roi at the end it read and moves the end
ResultWrite(c) ==
  /\ pc = "result"
  /\ c \in DOMAIN task
  /\ task[c].pc = "write"
  /\ LET t == task[c]
         roi == t.rois[t.k]
         at == t.end + 1
     IN /\ outputs' = [ i \in 1 .. (IF at > Len(outputs) THEN at ELSE Len(outputs)) |->
                          IF i = at THEN roi ELSE outputs[i] ]
        /\ finish' = at
        /\ task' = [ task EXCEPT
                       ![c] = AfterPush([ t EXCEPT !.pushed = Append(t.pushed, roi) ],
                                        Len(hypMap[c])) ]
  /\ UNCHANGED << stageVars, n, labelmap, labels, object_ids, slot, lock,
                  hypMap, objList, workingQueue, pc, pending, staleUse, rounds,
                  poses_gt, top_box, top_pose, top_target, top_weight >>

\* end of the result loop; storage past the end of outputs is not read again
ResultDone ==
  /\ pc = "result"
  /\ BarrierReached({ c \in DOMAIN task : task[c].pc # "done" })
  /\ pc' = "exit"
  /\ outputs' = SubSeq(outputs, 1, finish)
  /\ UNCHANGED << stageVars, n, finish, labelmap, labels, object_ids, slot, lock,
                  hypMap, objList, workingQueue, pending, staleUse, rounds, task,
                  poses_gt, top_box, top_pose, top_target, top_weight >>

\* estimateCenter returns to Compute; its locals are gone
Return ==
  /\ pc = "exit"
  /\ pc' = "compute"
  /\ labels' = [ c \in Classes |-> 0 ]
  /\ object_ids' = << >>
  /\ slot' = [ h \in Slots |-> IdleSlot ]
  /\ hypMap' = << >>
  /\ objList' = << >>
  /\ workingQueue' = << >>
  /\ pending' = NoPending
  /\ task' = << >>
  /\ rounds' = 0
  /\ UNCHANGED << stageVars, n, outputs, finish, labelmap, lock, staleUse, poses_gt,
                  top_box, top_pose, top_target, top_weight >>

(***************************************************************************)
(* Compute: the output tensors                                             *)
(***************************************************************************)
Detections == SubSeq(outputs, 1, finish)

\* ground truth lists of up to MaxGt records, each of a foreground class
GtKeys == (0 .. (MaxBatch - 1)) \X (Classes \ {0})

GtLists ==
  UNION { { [ j \in 1 .. len |-> GtRecord(j, ks[j][1], ks[j][2]) ] :
              ks \in [ 1 .. len -> GtKeys ] } : len \in 0 .. MaxGt }

Compute ==
  /\ pc = "compute"
  /\ \E gts \in GtLists :
       /\ poses_gt' = gts
       /\ top_box' = [ i \in 1 .. finish |->
                         << outputs[i].batch, outputs[i].cls, outputs[i].x1,
                            outputs[i].y1, outputs[i].x2, outputs[i].y2 >> ]
       /\ top_pose' = [ i \in 1 .. finish |-> outputs[i].pose ]
       /\ top_target' = [ i \in 1 .. finish |-> TargetRow(outputs[i], gts) ]
       /\ top_weight' = [ i \in 1 .. finish |-> WeightRow(outputs[i], gts) ]
  /\ pc' = "done"
  /\ UNCHANGED << stageVars, n, outputs, finish, labelmap, labels, object_ids, slot, lock,
                  hypMap, objList, workingQueue, pending, staleUse, rounds, task >>

(***************************************************************************)
(* Specifications                                                          *)
(*                                                                         *)
(* The pass is followed in two halves.  Spec runs estimateCenter from its  *)
(* entry to the end of the while loop (or to the early return).            *)
(* ResultSpec starts where the loop ended and runs the result loop, the    *)
(* return to Compute and the output tensors.                               *)
(***************************************************************************)
Next ==
  \/ getLabels
  \/ \E h \in Slots : Sample(h)
  \/ \E h \in Slots : Enter(h)
  \/ \E h \in Slots : Push(h)
  \/ SampleDone
  \/ WhileTest
  \/ \E p \in pending.count : CountTask(p)
  \/ CountDone
  \/ \E c \in pending.cull : CullTask(c)
  \/ CullDone
  \/ \E p \in pending.refine : RefineTask(p)
  \/ RefineDone

Spec == Init /\ [][Next]_vars

\* every thread that can take a step eventually takes one
FairSpec == Spec /\ WF_vars(Next)

\* the hypothesis the loop leaves of a hypothesis of slot h for class c when
\* every count of it finds inl inliers among maxPt pixels
RECURSIVE LoopOutcome(_, _, _, _)
LoopOutcome(hyp, maxPt, inl, k) ==
  IF k = 0 THEN hyp
  ELSE LoopOutcome(RefineStep(countInliers2D(hyp, preemptiveBatch, maxPt, inl), maxPixels),
                   maxPt, inl, k - 1)

\* registries the loop may end with: every class of a non-empty set of the
\* active classes holds one hypothesis refined refIt times (the sampling slot
\* it came from and its inlier counts are not read by the result loop; slot c
\* and four inliers are taken)
LoopResults(ids, sizes) ==
  IF ids = << >> THEN { << >> }
  ELSE { [ c \in K |-> << LoopOutcome(NewHyp(c, c), sizes[c], 4, refIt) >> ] :
           K \in (SUBSET Range(ids)) \ { {} } }

ResultInit ==
  /\ StageUnused
  /\ n \in 0 .. (MaxBatch - 1)
  /\ outputs \in EarlierOutputs(n)
  /\ finish = Len(outputs)
  /\ labelmap \in LabelMaps
  /\ labels \in BucketSizes(labelmap)
  /\ object_ids = ObjectIds(labels)
  /\ slot = [ h \in Slots |-> IdleSlot ]
  /\ lock = 0
  /\ hypMap \in LoopResults(object_ids, labels)
  /\ objList = Ascending(Keys(hypMap))
  /\ workingQueue = << >>
  /\ pc = IF object_ids = << >> THEN "exit" ELSE "result"
  /\ pending = NoPending
  /\ staleUse = FALSE
  /\ rounds = IF object_ids = << >> THEN 0 ELSE refIt
  /\ task = [ c \in Keys(hypMap) |-> [ NoTask EXCEPT !.pc = "pose", !.h = 1 ] ]
  /\ poses_gt = << >>
  /\ top_box = << >>
  /\ top_pose = << >>
  /\ top_target = << >>
  /\ top_weight = << >>

ResultNext ==
  \/ \E c \in Classes : ResultPose(c)
  \/ \E c \in Classes : ResultRead(c)
  \/ \E c \in Classes : ResultWrite(c)
  \/ ResultDone
  \/ Return
  \/ Compute

ResultSpec == ResultInit /\ [][ResultNext]_vars

\* ResultInit describes states Spec reaches
ResultInitReached == ResultInit /\ n = 1 /\ outputs # << >> /\ Keys(hypMap) = {1, 2}
ResultInitSingle == ResultInit /\ Keys(hypMap) = {2} /\ labelmap[1] = minArea + 1
ResultInitExit == ResultInit /\ pc = "exit"

(***************************************************************************)
(* the while loop on larger buckets (LoopSpec)                             *)
(*                                                                         *)
(* The loop of estimateCenter from its first test, on the registries the   *)
(* sampling can leave with up to MaxLoopHyps hypotheses: a class then      *)
(* holds several hypotheses over more than one pass.                       *)
(***************************************************************************)
\* hypotheses in the registry when the loop begins
MaxLoopHyps == 4

\* how many hypotheses each class holds after the sampling
LoopSizes ==
  { sz \in [ Classes -> 0 .. MaxLoopHyps ] :
      /\ sz[0] = 0
      /\ SumOver(sz, Classes) \in 1 .. MaxLoopHyps }

\* the registry with sz[c] hypotheses of class c, as inserted
SampledRegistry(sz) ==
  [ c \in { k \in Classes : sz[k] > 0 } |->
      [ i \in 1 .. sz[c] |-> NewHyp(SumOver(sz, 0 .. (c - 1)) + i, c) ] ]

LoopInit ==
  /\ StageUnused
  /\ n = 0 /\ outputs = << >> /\ finish = 0
  /\ slot = [ h \in Slots |-> IdleSlot ]
  /\ lock = 0
  /\ \E sz \in LoopSizes :
       /\ labelmap = [ c \in Classes |-> IF sz[c] > 0 THEN minArea + 1 ELSE 0 ]
       /\ hypMap = SampledRegistry(sz)
  /\ labels = labelmap
  /\ object_ids = ObjectIds(labels)
  /\ objList = Ascending(Keys(hypMap))
  /\ workingQueue = getWorkingQueue(hypMap, refIt)
  /\ pc = "while"
  /\ pending = NoPending
  /\ staleUse = FALSE
  /\ rounds = 0
  /\ task = << >>
  /\ poses_gt = << >>
  /\ top_box = << >> /\ top_pose = << >> /\ top_target = << >> /\ top_weight = << >>

LoopNext ==
  \/ WhileTest
  \/ \E p \in pending.count : CountTask(p)
  \/ CountDone
  \/ \E c \in pending.cull : CullTask(c)
  \/ CullDone
  \/ \E p \in pending.refine : RefineTask(p)
  \/ RefineDone

LoopSpec == LoopInit /\ [][LoopNext]_vars

(***************************************************************************)
(* getLabels pixel by pixel (LabelSpec)                                    *)
(*                                                                         *)
(* The loop over x is an omp parallel for: one task for each column, which *)
(* walks its pixels from y = 0 upwards.  labels[label].push_back is not in *)
(* a critical section; it is followed as the read of the end of the vector *)
(* and the store of the element and of the new end.                        *)
(***************************************************************************)
\* width and height of the images followed pixel by pixel
LabelWidth == 2
LabelHeight == 2

Columns == 0 .. (LabelWidth - 1)
PixelIndexes == 0 .. (LabelWidth * LabelHeight - 1)

\* y * width + x
FlatIndex(x, y) == y * LabelWidth + x

\* the elements of the vector labels[c]
ListOf(c) == SubSeq(labelLists[c].buf, 1, labelLists[c].size)

\* the variables of estimateCenter past getLabels, before anything ran
PassNotStarted ==
  /\ n = 0 /\ outputs = << >> /\ finish = 0
  /\ labels = [ c \in Classes |-> 0 ]
  /\ object_ids = << >>
  /\ slot = [ h \in Slots |-> IdleSlot ]
  /\ lock = 0
  /\ hypMap = << >> /\ objList = << >> /\ workingQueue = << >>
  /\ pending = NoPending
  /\ staleUse = FALSE
  /\ rounds = 0
  /\ task = << >>
  /\ poses_gt = << >>
  /\ top_box = << >> /\ top_pose = << >> /\ top_target = << >> /\ top_weight = << >>

LabelInit ==
  /\ PassNotStarted
  /\ label_map \in [ PixelIndexes -> Classes ]
  /\ labelmap = [ c \in Classes |-> Cardinality({ i \in PixelIndexes : label_map[i] = c }) ]
  /\ labelLists = [ c \in Classes |-> [ buf |-> << >>, size |-> 0 ] ]
  /\ labelTask = [ x \in Columns |-> [ pc |-> "read", y |-> 0, end |-> 0 ] ]
  /\ countCall = IdleCall
  /\ cullCall = IdleCall
  /\ pc = "getLabels"

\* push_back of the task of column x reads the end of labels[label]
LabelRead(x) ==
  /\ pc = "getLabels"
  /\ labelTask[x].pc = "read"
  /\ LET label == label_map[FlatIndex(x, labelTask[x].y)]
     IN labelTask' = [ labelTask EXCEPT ![x].pc = "write", ![x].end = labelLists[label].size ]
  /\ UNCHANGED << n, outputs, finish, labelmap, labels, object_ids, slot, lock, hypMap,
                  objList, workingQueue, pc, pending, staleUse, rounds, task, poses_gt,
                  top_box, top_pose, top_target, top_weight,
                  label_map, labelLists, countCall, cullCall >>

\* push_back stores the index past the end it read and sets the new end;
\* the task moves on to the next y
LabelWrite(x) ==
  /\ pc = "getLabels"
  /\ labelTask[x].pc = "write"
  /\ LET t == labelTask[x]
         index == FlatIndex(x, t.y)
         label == label_map[index]
         buf == labelLists[label].buf
         at == t.end + 1
         top == IF at > Len(buf) THEN at ELSE Len(buf)
     IN /\ labelLists' = [ labelLists EXCEPT
                             ![label] = [ buf |-> [ i \in 1 .. top |->
                                                     IF i = at THEN index ELSE buf[i] ],
                                          size |-> at ] ]
        /\ labelTask' = [ labelTask EXCEPT
                            ![x] = IF t.y + 1 < LabelHeight
                                   THEN [ pc |-> "read", y |-> t.y + 1, end |-> 0 ]
                                   ELSE [ pc |-> "done", y |-> t.y + 1, end |-> 0 ] ]
  /\ UNCHANGED << n, outputs, finish, labelmap, labels, object_ids, slot, lock, hypMap,
                  objList, workingQueue, pc, pending, staleUse, rounds, task, poses_gt,
                  top_box, top_pose, top_target, top_weight,
                  label_map, countCall, cullCall >>

\* end of the parallel loop, then the loop that fills object_ids
LabelsDone ==
  /\ pc = "getLabels"
  /\ BarrierReached({ x \in Columns : labelTask[x].pc # "done" })
  /\ labels' = [ c \in Classes |-> labelLists[c].size ]
  /\ object_ids' = ObjectIds([ c \in Classes |-> labelLists[c].size ])
  /\ pc' = "labelled"
  /\ UNCHANGED << n, outputs, finish, labelmap, slot, lock, hypMap,
                  objList, workingQueue, pending, staleUse, rounds, task, poses_gt,
                  top_box, top_pose, top_target, top_weight, stageVars >>

LabelNext ==
  \/ \E x \in Columns : LabelRead(x)
  \/ \E x \in Columns : LabelWrite(x)
  \/ LabelsDone

LabelSpec == LabelInit /\ [][LabelNext]_vars

\* what Spec takes from getLabels: no list is longer than the label map has
\* pixels of its class
ListsWithinCounts == \A c \in Classes : labelLists[c].size <= labelmap[c]

(***************************************************************************)
(* countInliers2D pixel by pixel (CountSpec)                               *)
(*                                                                         *)
(* One hypothesis of a class with maxPt pixels is counted up to MaxCalls   *)
(* times and refined after each count, as in a pass of the while loop.     *)
(* ptIdx walks the pixel list of the class; the pixel at ptIdx stands for  *)
(* labels[hyp.objID][ptIdx].  Whether a pixel passes the inlier check      *)
(* depends on the centre and on the vertex map and is left open.           *)
(* updateHyp2D is followed on the list itself, for a maxInliers small      *)
(* enough that lists shorter than it, as long as it and longer occur.      *)
(***************************************************************************)
\* pixels of the class of the hypothesis
MaxPt == 5
\* largest pixelBatch (the attribute preemptive_batch of the op)
MaxPixelBatch == 2
\* calls of countInliers2D followed for one hypothesis
MaxCalls == 3

\* mutation: the list of the last call is not cleared
clearNothing(v) == v

\* hyp.inlierPts2D.clear()
clear(v) == << >>

\* mutation: ptIdx += distribution(generator), without the max with 1
SkipChoicesFromZero(budget, maxPt) ==
  IF budget < maxPt THEN 0 .. maxPt ELSE {1}

\* steps ptIdx may advance by: std::max(1, distribution(generator)) when
\* successRate = budget / maxPt is below 1 (any skip past the end of the list
\* ends the loop like maxPt does), otherwise 1
SkipChoices(budget, maxPt) ==
  IF budget < maxPt THEN 1 .. maxPt ELSE {1}

\* values of the parameter maxInliers of filterInliers2D that are followed
\* (estimateCenter passes maxPixels)
MaxInliersChoices == { MinInlierPts, MinInlierPts + 1 }

\* irand(min, max): an index drawn from min up to, not including, max
irand(min, max) == min .. (max - 1)

\* mutation: the list is redrawn whatever its length
DrawnListsAlways(list, maxInliers) ==
  { [ i \in 1 .. maxInliers |-> list[draw[i] + 1] ] :
      draw \in [ 1 .. maxInliers -> irand(0, Len(list)) ] }

\* filterInliers2D on the list: a list shorter than maxInliers is left as it
\* is; otherwise maxInliers entries are drawn, each one the entry at
\* irand(0, size) of the list, and the drawn entries replace the list
DrawnLists(list, maxInliers) ==
  IF Len(list) < maxInliers THEN { list }
  ELSE { [ i \in 1 .. maxInliers |-> list[draw[i] + 1] ] :
           draw \in [ 1 .. maxInliers -> irand(0, Len(list)) ] }

CountInit ==
  /\ PassNotStarted
  /\ labelmap = [ c \in Classes |-> 0 ]
  /\ label_map = << >> /\ labelLists = << >> /\ labelTask = << >>
  /\ cullCall = IdleCall
  /\ pc = "countInliers2D"
  /\ \E pts \in 1 .. MaxPt : \E batch \in 1 .. MaxPixelBatch :
     \E most \in MaxInliersChoices :
       countCall = [ pc |-> "idle", maxPt |-> pts, pixelBatch |-> batch,
                     ptIdx |-> 0, examined |-> << >>, calls |-> 0, found |-> 0,
                     inlierPts2D |-> << >>, inliers |-> 0,
                     effPixels |-> 0, maxPixels |-> 0,
                     maxInliers |-> most, center |-> "sampled",
                     refined |-> FALSE ]

\* entry of the call, the first one or the one of the pass after a refine:
\* the data of the last call is reset and the budget grows by pixelBatch
\* (found remembers how long the list was at entry)
CountBegin ==
  /\ pc = "countInliers2D"
  /\ countCall.pc = "idle"
  /\ countCall.calls < MaxCalls
  /\ countCall.calls = 0 \/ countCall.refined
  /\ countCall' = [ countCall EXCEPT
                      !.pc = "loop",
                      !.found = Len(countCall.inlierPts2D),
                      !.inlierPts2D = clear(countCall.inlierPts2D),
                      !.inliers = 0,
                      !.effPixels = 0,
                      !.maxPixels = countCall.maxPixels + countCall.pixelBatch,
                      !.ptIdx = 0,
                      !.examined = << >>,
                      !.refined = FALSE ]
  /\ UNCHANGED << n, outputs, finish, labelmap, labels, object_ids, slot, lock, hypMap,
                  objList, workingQueue, pc, pending, staleUse, rounds, task, poses_gt,
                  top_box, top_pose, top_target, top_weight,
                  label_map, labelLists, labelTask, cullCall >>

\* one pass of the body of the loop: the pixel at ptIdx is examined, stored
\* and counted if it passes the inlier check, and ptIdx advances
CountPixel ==
  /\ pc = "countInliers2D"
  /\ countCall.pc = "loop"
  /\ countCall.ptIdx < countCall.maxPt
  /\ \E isInlier \in BOOLEAN :
       \E skip \in SkipChoices(countCall.maxPixels, countCall.maxPt) :
         countCall' = [ countCall EXCEPT
                          !.examined = Append(countCall.examined, countCall.ptIdx),
                          !.effPixels = countCall.effPixels + 1,
                          !.inlierPts2D = IF isInlier
                                          THEN Append(countCall.inlierPts2D, countCall.ptIdx)
                                          ELSE countCall.inlierPts2D,
                          !.inliers = IF isInlier THEN countCall.inliers + 1
                                      ELSE countCall.inliers,
                          !.ptIdx = countCall.ptIdx + skip ]
  /\ UNCHANGED << n, outputs, finish, labelmap, labels, object_ids, slot, lock, hypMap,
                  objList, workingQueue, pc, pending, staleUse, rounds, task, poses_gt,
                  top_box, top_pose, top_target, top_weight,
                  label_map, labelLists, labelTask, cullCall >>

\* the loop ends when ptIdx is past the list; the call returns
CountReturn ==
  /\ pc = "countInliers2D"
  /\ countCall.pc = "loop"
  /\ countCall.ptIdx >= countCall.maxPt
  /\ countCall' = [ countCall EXCEPT !.pc = "idle", !.calls = countCall.calls + 1 ]
  /\ UNCHANGED << n, outputs, finish, labelmap, labels, object_ids, slot, lock, hypMap,
                  objList, workingQueue, pc, pending, staleUse, rounds, task, poses_gt,
                  top_box, top_pose, top_target, top_weight,
                  label_map, labelLists, labelTask, cullCall >>

\* updateHyp2D(hyp, maxPixels) on the hypothesis that was just counted: with
\* fewer than four inlier points nothing happens; otherwise the list goes
\* through filterInliers2D and the centre is estimated from it again.
\* hyp.inliers is not assigned.
CountRefine ==
  /\ pc = "countInliers2D"
  /\ countCall.pc = "idle"
  /\ countCall.calls >= 1
  /\ ~countCall.refined
  /\ IF Len(countCall.inlierPts2D) < MinInlierPts
     THEN countCall' = [ countCall EXCEPT !.refined = TRUE ]
     ELSE \E list \in DrawnLists(countCall.inlierPts2D, countCall.maxInliers) :
            countCall' = [ countCall EXCEPT !.inlierPts2D = list,
                                            !.center = "refit",
                                            !.refined = TRUE ]
  /\ UNCHANGED << n, outputs, finish, labelmap, labels, object_ids, slot, lock, hypMap,
                  objList, workingQueue, pc, pending, staleUse, rounds, task, poses_gt,
                  top_box, top_pose, top_target, top_weight,
                  label_map, labelLists, labelTask, cullCall >>

CountNext ==
  \/ CountBegin
  \/ CountPixel
  \/ CountReturn
  \/ CountRefine

CountSpec == CountInit /\ [][CountNext]_vars

(***************************************************************************)
(* the cull of one bucket (CullSpec)                                       *)
(*                                                                         *)
(* One bucket hypMap[objID] of up to MaxBucket counted hypotheses goes     *)
(* through the sort and the erase of the cull loop.  The id of a           *)
(* hypothesis is its place in the bucket, that is its place in the order   *)
(* of insertion.                                                           *)
(***************************************************************************)
\* hypotheses in the bucket
MaxBucket == 4
\* largest inlier count of a hypothesis of the bucket
MaxInliers == 2

\* the buckets of size hypotheses, in insertion order, with every count
Buckets(size) ==
  { [ i \in 1 .. size |-> [ NewHyp(i, FirstObject) EXCEPT !.inliers = counts[i] ] ] :
      counts \in [ 1 .. size -> 0 .. MaxInliers ] }

CullInit ==
  /\ PassNotStarted
  /\ labelmap = [ c \in Classes |-> 0 ]
  /\ label_map = << >> /\ labelLists = << >> /\ labelTask = << >>
  /\ countCall = IdleCall
  /\ pc = "cullCall"
  /\ \E size \in 1 .. MaxBucket : \E bucket \in Buckets(size) :
       cullCall = [ pc |-> "filled", before |-> bucket, bucket |-> bucket ]

\* one pass of the body of the cull loop for the bucket
CullCall ==
  /\ pc = "cullCall"
  /\ cullCall.pc = "filled"
  /\ \E p \in SortedOrders(cullCall.bucket) :
       cullCall' = [ cullCall EXCEPT
                       !.pc = "culled",
                       !.bucket = IF Len(cullCall.bucket) > 1
                                  THEN CullClass(cullCall.bucket, p)
                                  ELSE cullCall.bucket ]
  /\ UNCHANGED << n, outputs, finish, labelmap, labels, object_ids, slot, lock, hypMap,
                  objList, workingQueue, pc, pending, staleUse, rounds, task, poses_gt,
                  top_box, top_pose, top_target, top_weight,
                  label_map, labelLists, labelTask, countCall >>

CullNext == CullCall

CullSpec == CullInit /\ [][CullNext]_vars

(***************************************************************************)
(* Properties of the sampling and of the while loop (Spec, FairSpec)       *)
(***************************************************************************)
HypCount(m) == SumOver([ c \in Keys(m) |-> Len(m[c]) ], Keys(m))

\* C1: once the while loop is reached it terminates, whatever hypotheses the
\* sampler inserted and whatever inlier counts the rounds find: the result
\* loop is reached with an empty working queue (under FairSpec)
LoopTerminates == (pc = "while") ~> (pc = "result" /\ workingQueue = << >>)

\* the loop has ended for a hypothesis that never had four inliers
LoopEndedWithoutRefit ==
  /\ pc = "result" /\ workingQueue = << >> /\ rounds >= 1
  /\ \E c \in Keys(hypMap) : hypMap[c][1].center = "sampled"

\* C2 as stated: when the loop has ended every active class holds exactly one
\* hypothesis refined at least refIt times, whatever classes the slots picked
EveryActiveClassHasOneHyp ==
  pc = "result" =>
    \A c \in Range(object_ids) :
      /\ c \in Keys(hypMap)
      /\ Len(hypMap[c]) = 1
      /\ hypMap[c][1].refSteps >= refIt

\* C2 amended: when the loop has ended every class some slot picked (every key
\* of hypMap, each an active class, and there is at least one) holds exactly
\* one hypothesis refined at least refIt times
EveryPickedClassHasOneHyp ==
  pc = "result" =>
    /\ Keys(hypMap) # {}
    /\ Keys(hypMap) \subseteq Range(object_ids)
    /\ \A c \in Keys(hypMap) :
         /\ Len(hypMap[c]) = 1
         /\ hypMap[c][1].refSteps >= refIt

\* the loop has ended and an active class was picked by no slot
LoopEndedWithUnpickedClass ==
  /\ pc = "result"
  /\ \E c \in Range(object_ids) : c \notin Keys(hypMap)
  /\ \E c \in Keys(hypMap) : hypMap[c][1].refSteps >= refIt

\* C4 as stated: with class 1 on exactly minArea pixels and no other
\* foreground pixel, the pass ends with exactly one hypothesis of class 1
BoundaryClassIsActive ==
  ( /\ pc \in {"result", "exit"}
    /\ labelmap[1] = minArea
    /\ \A c \in Classes \ {0, 1} : labelmap[c] = 0 )
  => ( 1 \in Keys(hypMap) /\ Len(hypMap[1]) = 1 )

\* C9: during sampling at most one slot is inside the critical section, every
\* slot that has finished has exactly one hypothesis in the registry, filed
\* under the class it sampled, and the registry holds nothing else
InsertsAreExclusive ==
  pc = "sample" =>
    /\ Cardinality({ h \in Slots : slot[h].pc = "inside" }) <= 1
    /\ \A h \in Slots :
         slot[h].pc = "done" =>
           /\ slot[h].objID \in Keys(hypMap)
           /\ Cardinality({ i \in 1 .. Len(hypMap[slot[h].objID]) :
                              hypMap[slot[h].objID][i].id = h }) = 1
    /\ \A c \in Keys(hypMap) : \A i \in 1 .. Len(hypMap[c]) :
         /\ hypMap[c][i].objID = c
         /\ slot[hypMap[c][i].id].pc = "done"
         /\ slot[hypMap[c][i].id].objID = c
    /\ HypCount(hypMap) = Cardinality({ h \in Slots : slot[h].pc = "done" })
    /\ HypCount(hypMap) <= MaxSlots

\* every slot has inserted and two of them sampled the same class
AllSlotsInserted ==
  /\ pc = "sample"
  /\ \A h \in Slots : slot[h].pc = "done"
  /\ \E c \in Keys(hypMap) : Len(hypMap[c]) >= 2

\* C10: a cull runs only when every count of the round has run, a refinement
\* only when every cull has run, and the working queue is replaced only when
\* no task of any phase is outstanding
PhaseBarriers ==
  [][ /\ ( pending'.cull # pending.cull /\ pending'.cull \subseteq pending.cull )
           => pending.count = {}
      /\ ( pending'.refine # pending.refine /\ pending'.refine \subseteq pending.refine )
           => ( pending.count = {} /\ pending.cull = {} )
      /\ ( workingQueue' # workingQueue )
           => ( pending.count = {} /\ pending.cull = {} /\ pending.refine = {} )
    ]_vars

\* a round in which two classes were culled is being refined
RefiningAfterCull ==
  /\ pc = "refine" /\ pending.refine # {} /\ pending.cull = {}
  /\ Cardinality(Keys(hypMap)) = 2
  /\ rounds >= 1

\* the hypotheses of vector v as a set of (id, inliers) pairs
IdsOf(v) == { v[i].id : i \in 1 .. Len(v) }

\* a step in which the cull task of class c runs
CullStep(c) == c \in pending.cull /\ c \notin pending'.cull /\ pc = "cull"

\* C11: in the cull of a class with more than one hypothesis, every
\* hypothesis that survives has an inlier count greater than or equal to that
\* of every hypothesis discarded in that cull
SurvivorsOutrankDiscarded ==
  [][ \A c \in DOMAIN hypMap :
        (CullStep(c) /\ Len(hypMap[c]) > 1) =>
          \A i \in 1 .. Len(hypMap'[c]) : \A j \in 1 .. Len(hypMap[c]) :
            hypMap[c][j].id \notin IdsOf(hypMap'[c])
              => hypMap'[c][i].inliers >= hypMap[c][j].inliers
    ]_vars

\* the first cull is over; one class held two of the hypotheses and the
\* survivor of a class has the higher of the two inlier counts
CullKeptHigherCount ==
  /\ pc = "cull" /\ rounds = 0 /\ pending.cull = {}
  /\ Cardinality(Keys(hypMap)) = 2
  /\ \A c \in Keys(hypMap) : Len(hypMap[c]) = 1
  /\ \E c \in Keys(hypMap) : hypMap[c][1].inliers = 4

\* C12 as stated: the cull of a class of size > 1 discards size \div 2
\* hypotheses and leaves size - size \div 2; a class of one is untouched
CullDiscardsHalfRoundedDown ==
  [][ \A c \in DOMAIN hypMap :
        CullStep(c) =>
          IF Len(hypMap[c]) > 1
          THEN Len(hypMap'[c]) = Len(hypMap[c]) - Len(hypMap[c]) \div 2
          ELSE hypMap'[c] = hypMap[c]
    ]_vars

\* C12 amended: the cull of a class of size > 1 leaves size \div 2
\* hypotheses, all of them among those it held, and discards the other
\* size - size \div 2; a class of one is untouched
CullKeepsHalfRoundedDown ==
  [][ \A c \in DOMAIN hypMap :
        CullStep(c) =>
          IF Len(hypMap[c]) > 1
          THEN /\ Len(hypMap'[c]) = Len(hypMap[c]) \div 2
               /\ Cardinality(IdsOf(hypMap'[c])) = Len(hypMap'[c])
               /\ IdsOf(hypMap'[c]) \subseteq IdsOf(hypMap[c])
          ELSE hypMap'[c] = hypMap[c]
    ]_vars

\* the first cull is over for a class that held an odd number of hypotheses
\* (every slot sampled it) and one is left
OddClassCulled ==
  /\ pc = "cull" /\ rounds = 0 /\ pending.cull = {}
  /\ Cardinality(Keys(hypMap)) = 1
  /\ HypCount(hypMap) = 1
  /\ MaxSlots % 2 = 1

\* a step in which the refine task of queue entry p runs
RefineStepOf(p) == p \in pending.refine /\ p \notin pending'.refine /\ pc = "refine"

\* C13 as stated: a queued hypothesis with fewer than four inlier
\* correspondences is the same after its refine task as before, its
\* refinement-step counter included
FewInliersLeftUnchanged ==
  [][ \A p \in pending.refine :
        (RefineStepOf(p) /\ Load(hypMap, p).nPts < 4)
          => Load(hypMap', p) = Load(hypMap, p)
    ]_vars

\* C13 amended: such a hypothesis keeps its center, its inlier list and
\* count and every other field, except that its refinement-step counter
\* is one higher
FewInliersOnlyCounted ==
  [][ \A p \in pending.refine :
        (RefineStepOf(p) /\ Load(hypMap, p).nPts < 4)
          => Load(hypMap', p) =
               [ Load(hypMap, p) EXCEPT !.refSteps = Load(hypMap, p).refSteps + 1 ]
    ]_vars

\* a refine phase has passed over a hypothesis with three inliers
RefinedWithThreeInliers ==
  /\ pc = "refine" /\ pending.refine = {}
  /\ \E c \in Keys(hypMap) :
       /\ hypMap[c][1].nPts = 3 /\ hypMap[c][1].center = "sampled"
       /\ hypMap[c][1].refSteps = rounds + 1

\* C14: in the loop the classes of the registry stay the same, no class
\* gains a hypothesis or loses its last one, every pass culls every class
\* (the cull phase opens with all of them and closes with none left), and
\* the cull of a class with more than one hypothesis leaves it fewer
ClassCountsShrink ==
  [][ (pc \in {"while", "count", "cull", "refine"}) =>
        ( /\ (DOMAIN hypMap') = (DOMAIN hypMap)
          /\ \A c \in DOMAIN hypMap :
               /\ Len(hypMap'[c]) <= Len(hypMap[c])
               /\ Len(hypMap'[c]) >= 1
               /\ ( (CullStep(c) /\ Len(hypMap[c]) > 1)
                      => (Len(hypMap'[c]) < Len(hypMap[c])) )
          /\ ( (pc = "count" /\ pc' = "cull") => (pending'.cull = DOMAIN hypMap) )
          /\ ( (pc = "cull" /\ pc' # "cull") => (pending.cull = {}) ) )
    ]_vars

\* two passes are over and two classes are down to one hypothesis each
TwoClassesAtOne ==
  /\ pc = "while" /\ rounds >= 2
  /\ Cardinality(Keys(hypMap)) = 2
  /\ HypCount(hypMap) = 2

\* no class from 1 upwards has more than minArea pixels in the label map
NoActiveClass == \A c \in Classes \ {0} : ~ (labelmap[c] > minArea)

\* C16: once getLabels has run on a label map without an active class the
\* pass is at its return with no hypothesis, no sampling slot started, and
\* outputs as the earlier images of the batch left it
NothingWithoutActiveClass ==
  (NoActiveClass /\ pc # "estimateCenter") =>
    /\ pc = "exit"
    /\ object_ids = << >>
    /\ hypMap = << >> /\ objList = << >> /\ workingQueue = << >>
    /\ \A h \in Slots : slot[h] = IdleSlot
    /\ outputs \in EarlierOutputs(n)
    /\ finish = Len(outputs)

\* the pass for the second image returned early beside the detections of the
\* first image, with a class at exactly minArea pixels
ReturnedEarlyBesideDetections ==
  /\ pc = "exit" /\ NoActiveClass
  /\ n = 1 /\ Len(outputs) = 5
  /\ \E c \in Classes \ {0} : labelmap[c] = minArea

\* C23: no count and no refine has gone through an address that no longer
\* holds its hypothesis, every address a count or refine task is still to use
\* holds its hypothesis, and so does every entry of the working queue except
\* between the culls of a pass and the computation of the queue that follows
NoStaleReference ==
  /\ ~staleUse
  /\ \A p \in pending.count \cup pending.refine : Live(hypMap, p)
  /\ (pc \in {"while", "count", "refine"}) =>
       \A i \in 1 .. Len(workingQueue) : Live(hypMap, workingQueue[i])

\* the culls of a pass are over and the queue the count loop used still holds
\* the address of a hypothesis that was discarded or moved
QueueHoldsDiscarded ==
  /\ pc = "cull" /\ pending.cull = {}
  /\ ~staleUse
  /\ \E i \in 1 .. Len(workingQueue) : ~ Live(hypMap, workingQueue[i])

(***************************************************************************)
(* Properties of the while loop on larger buckets (LoopSpec)               *)
(***************************************************************************)
\* no task of the phase the loop is in has run without the others: the loop
\* is at its test, at the start or at the end of a phase, or past its end
\* (the culls change neither counters nor budgets)
AtPhaseBoundary ==
  \/ pc \in {"while", "cull", "result"}
  \/ pc = "count" /\ pending.count \in { {}, Range(workingQueue) }
  \/ pc = "refine" /\ pending.refine \in { {}, Range(workingQueue) }

\* C24: between the phases of the loop all hypotheses of a class have the
\* same refinement-step counter and the same pixel budget, so a cull ranks
\* hypotheses that were counted over the same budget
ClassSharesStepsAndBudget ==
  AtPhaseBoundary =>
    \A c \in Keys(hypMap) :
      \A i, j \in 1 .. Len(hypMap[c]) :
        /\ hypMap[c][i].refSteps = hypMap[c][j].refSteps
        /\ hypMap[c][i].maxPixels = hypMap[c][j].maxPixels

\* the counts of a later pass are over for a class that still holds two
\* hypotheses, one with a centre that was estimated again and one without
TwoOfClassInLaterPass ==
  /\ pc = "count" /\ pending.count = {} /\ rounds >= 1
  /\ \E c \in Keys(hypMap) :
       /\ Len(hypMap[c]) = 2
       /\ hypMap[c][1].center # hypMap[c][2].center
       /\ hypMap[c][1].maxPixels = (rounds + 1) * preemptiveBatch

\* C25: with a registry of no more than 2^refIt hypotheses the body of the
\* loop runs refIt times: no pass begins after the refIt-th, at every test of
\* the loop each hypothesis has been refined once per pass made, and when
\* the loop has ended refIt passes were made and each class is left with one
\* hypothesis whose refinement-step counter is refIt
LoopRunsRefItPasses ==
  (Keys(hypMap) # {}) =>
    /\ rounds <= refIt
    /\ (pc \in {"count", "cull", "refine"}) => rounds < refIt
    /\ (pc = "while") =>
         \A c \in Keys(hypMap) : \A i \in 1 .. Len(hypMap[c]) :
           hypMap[c][i].refSteps = rounds
    /\ (pc = "result") =>
         /\ rounds = refIt
         /\ \A c \in Keys(hypMap) :
              /\ Len(hypMap[c]) = 1
              /\ hypMap[c][1].refSteps = refIt

\* the loop has ended after refIt passes for a class that began with
\* MaxLoopHyps hypotheses; the one inserted last is left
LoopEndedFromFullBucket ==
  /\ pc = "result" /\ rounds = refIt
  /\ Cardinality(Keys(hypMap)) = 1
  /\ \E c \in Keys(hypMap) :
       /\ hypMap[c][1].id = MaxLoopHyps
       /\ hypMap[c][1].refSteps = refIt

(***************************************************************************)
(* Properties of the results and of the output tensors (ResultSpec)        *)
(***************************************************************************)
\* places of outputs holding a detection of the image of this call
OwnPlaces == { i \in 1 .. finish : outputs[i].batch = n }

\* C3: no detection of this image, in outputs or in top_box, carries class 0
\* or a class with fewer than minArea pixels in the label map
NoBackgroundOrSmallDetection ==
  /\ \A i \in OwnPlaces :
       /\ outputs[i].cls # 0
       /\ ~ (labelmap[outputs[i].cls] < minArea)
  /\ \A i \in 1 .. Len(top_box) :
       top_box[i][1] = n =>
         /\ top_box[i][2] # 0
         /\ ~ (labelmap[top_box[i][2]] < minArea)

\* detections were written out for an image in which some foreground class
\* has pixels but too few
DetectionsBesideSmallClass ==
  /\ pc = "done"
  /\ \E i \in 1 .. Len(top_box) : top_box[i][1] = n
  /\ \E c \in Classes \ {0} : labelmap[c] > 0 /\ labelmap[c] <= minArea

\* C5 as stated: when the result loop has ended every hypothesis of hypMap has
\* exactly five detections in outputs, all with its batch, class and one
\* pose, and this image has five detections for each hypothesis
FiveDetectionsPerHypothesis ==
  pc = "exit" =>
    /\ \A c \in Keys(hypMap) :
         LET mine == { i \in OwnPlaces : outputs[i].cls = c }
         IN /\ Cardinality(mine) = 5 * Len(hypMap[c])
            /\ \A i, j \in mine : outputs[i].pose = outputs[j].pose
    /\ Cardinality(OwnPlaces) = 5 * HypCount(hypMap)

\* C6 as stated: every jittered roi a result task pushes is the first roi it
\* pushed moved by (sx * 0.05 * w, sy * 0.05 * h), with the same width and height
JitterIsTranslation ==
  \A c \in DOMAIN task :
    \A k \in 2 .. Len(task[c].pushed) :
      LET first == task[c].pushed[1]
          jit == task[c].pushed[k]
          w == first.x2 - first.x1
          h == first.y2 - first.y1
      IN /\ jit.x2 - jit.x1 = w
         /\ jit.y2 - jit.y1 = h
         /\ \E sx, sy \in {-1, 1} :
              /\ jit.x1 = first.x1 + sx * (w \div 20)
              /\ jit.y1 = first.y1 + sy * (h \div 20)

\* whether some ground truth record names the batch and class of row i
HasGt(i) ==
  \E j \in 1 .. Len(poses_gt) :
    poses_gt[j][0] = top_box[i][1] /\ poses_gt[j][1] = top_box[i][2]

\* the first such record
FirstGt(i) ==
  CHOOSE j \in 1 .. Len(poses_gt) :
    /\ poses_gt[j][0] = top_box[i][1] /\ poses_gt[j][1] = top_box[i][2]
    /\ \A j2 \in 1 .. (j - 1) :
         ~ (poses_gt[j2][0] = top_box[i][1] /\ poses_gt[j2][1] = top_box[i][2])

\* C7: every row of top_target and top_weight is zero outside the four slots
\* of the detection's class; with no ground truth record of its batch and
\* class the whole row is zero, with one those four weights are 1
RowsOnlyAtClassSlots ==
  pc = "done" =>
    /\ Len(top_box) = finish /\ Len(top_target) = finish /\ Len(top_weight) = finish
    /\ \A i \in 1 .. finish :
         LET c == top_box[i][2]
         IN /\ top_box[i][1] = outputs[i].batch /\ c = outputs[i].cls
            /\ DOMAIN top_target[i] = 0 .. (4 * num_classes - 1)
            /\ DOMAIN top_weight[i] = 0 .. (4 * num_classes - 1)
            /\ \A s \in 0 .. (4 * num_classes - 1) :
                 IF HasGt(i) /\ s \in (4 * c) .. (4 * c + 3)
                 THEN top_weight[i][s] = 1
                 ELSE top_weight[i][s] = 0 /\ top_target[i][s] = 0

\* rows were written for a detection with a ground truth record and for one
\* without
RowsWithAndWithoutGt ==
  /\ pc = "done"
  /\ \E i \in 1 .. finish : HasGt(i)
  /\ \E i \in 1 .. finish : ~ HasGt(i)

\* C8 as stated: the four target slots hold the four fields that follow the
\* batch, the class and six more fields of the record (fields 8 to 11)
TargetIsFieldsAfterSix ==
  pc = "done" =>
    \A i \in 1 .. finish :
      HasGt(i) =>
        \A k \in 0 .. 3 :
          top_target[i][4 * top_box[i][2] + k] = poses_gt[FirstGt(i)][8 + k]

\* C8 amended: the four target slots hold the four fields that follow the
\* batch, the class and four more fields of the first matching record
\* (fields 6 to 9 of the 13; the last three are not read)
TargetIsFieldsAfterFour ==
  pc = "done" =>
    \A i \in 1 .. finish :
      HasGt(i) =>
        \A k \in 0 .. 3 :
          top_target[i][4 * top_box[i][2] + k] = poses_gt[FirstGt(i)][6 + k]

\* a detection of the second image has a ground truth record
SecondImageRowHasGt ==
  /\ pc = "done"
  /\ \E i \in 1 .. finish : top_box[i][1] = 1 /\ n = 1 /\ HasGt(i)

\* the rois of the result tasks of classes cs, one task after the other
RECURSIVE RoisInOrder(_)
RoisInOrder(cs) ==
  IF cs = << >> THEN << >>
  ELSE task[Head(cs)].pushed \o RoisInOrder(Tail(cs))

\* C15 as stated: the output list of a pass depends only on the inputs and
\* the draws, not on the scheduling; the schedule that runs the result tasks
\* one after the other in registry order is one of the schedules, so every
\* schedule leaves outputs as that one does: what the earlier images left,
\* followed by what each task pushed, class by class
OutputsIndependentOfSchedule ==
  pc = "exit" =>
    \E prior \in EarlierOutputs(n) :
      outputs = prior \o RoisInOrder(Ascending(DOMAIN task))

(***************************************************************************)
(* Properties of getLabels (LabelSpec)                                     *)
(***************************************************************************)
\* how often pixel index i is an element of labels[c]
TimesListed(i, c) ==
  Cardinality({ k \in 1 .. labelLists[c].size : labelLists[c].buf[k] = i })

\* C18 as stated: when getLabels has run, every pixel index is exactly once in
\* the list of its label and in no other list, and the lengths of the lists
\* sum to height * width, however the tasks of the parallel loop interleave
EveryPixelListedOnce ==
  pc = "labelled" =>
    /\ \A i \in PixelIndexes : \A c \in Classes :
         TimesListed(i, c) = IF c = label_map[i] THEN 1 ELSE 0
    /\ SumOver(labels, Classes) = LabelWidth * LabelHeight

(***************************************************************************)
(* Properties of countInliers2D (CountSpec)                                *)
(***************************************************************************)
\* countInliers2D has returned
Counted == countCall.pc = "idle" /\ countCall.calls >= 1 /\ ~countCall.refined

\* C19: when a call has returned, hyp.inliers is the length of
\* hyp.inlierPts2D, and the list holds pixels this call examined, each once and
\* nothing else, whatever the list held when the call began
InliersRebuilt ==
  Counted =>
    /\ countCall.inliers = Len(countCall.inlierPts2D)
    /\ Range(countCall.inlierPts2D) \subseteq Range(countCall.examined)
    /\ Cardinality(Range(countCall.inlierPts2D)) = Len(countCall.inlierPts2D)
    /\ countCall.inliers <= countCall.effPixels

\* a call that began with a non-empty list has returned with fewer inliers
\* than it found there
RecountedBelowLastList ==
  /\ Counted
  /\ countCall.found > 0
  /\ Len(countCall.inlierPts2D) < countCall.found

\* C20: the budget is pixelBatch times the number of calls begun; a call
\* examines pixels of the list in increasing order, none twice; when the
\* budget is at least the class's pixel count the call that returned examined
\* every pixel of the list once
BudgetAndOrder ==
  /\ countCall.maxPixels =
       countCall.pixelBatch * (countCall.calls + IF countCall.pc = "loop" THEN 1 ELSE 0)
  /\ countCall.effPixels = Len(countCall.examined)
  /\ \A i \in 1 .. Len(countCall.examined) :
       /\ countCall.examined[i] \in 0 .. (countCall.maxPt - 1)
       /\ \A j \in 1 .. Len(countCall.examined) :
            i < j => countCall.examined[i] < countCall.examined[j]
  /\ (Counted /\ countCall.maxPixels >= countCall.maxPt) =>
       countCall.examined = [ i \in 1 .. countCall.maxPt |-> i - 1 ]

\* the budget has just reached the class's pixel count: the calls before
\* skipped pixels, this one examined all of them
BudgetReachedClassSize ==
  /\ Counted
  /\ countCall.pixelBatch = 1
  /\ countCall.calls = countCall.maxPt
  /\ countCall.maxPt > 1
  /\ Len(countCall.examined) = countCall.maxPt

\* updateHyp2D has just run on a list that reached filterInliers2D
Filtered ==
  /\ ~countCall.refined
  /\ countCall'.refined
  /\ Len(countCall.inlierPts2D) >= MinInlierPts

\* C21 as stated: a list no longer than maxInliers reaches the estimation of
\* the centre as it was; a longer one is replaced by maxInliers entries, each
\* an entry of the list; hyp.inliers is not changed
ListUpToMaxKept ==
  [][ Filtered =>
        /\ (Len(countCall.inlierPts2D) <= countCall.maxInliers) =>
              (countCall'.inlierPts2D = countCall.inlierPts2D)
        /\ (Len(countCall.inlierPts2D) > countCall.maxInliers) =>
              /\ Len(countCall'.inlierPts2D) = countCall.maxInliers
              /\ Range(countCall'.inlierPts2D) \subseteq Range(countCall.inlierPts2D)
        /\ countCall'.inliers = countCall.inliers ]_vars

\* C21: a list shorter than maxInliers reaches the estimation of the centre as
\* it was; a list as long as maxInliers or longer is replaced by maxInliers
\* entries, each an entry of the list; hyp.inliers is not changed
ListBelowMaxKept ==
  [][ Filtered =>
        /\ (Len(countCall.inlierPts2D) < countCall.maxInliers) =>
              (countCall'.inlierPts2D = countCall.inlierPts2D)
        /\ (Len(countCall.inlierPts2D) >= countCall.maxInliers) =>
              /\ Len(countCall'.inlierPts2D) = countCall.maxInliers
              /\ Range(countCall'.inlierPts2D) \subseteq Range(countCall.inlierPts2D)
        /\ countCall'.inliers = countCall.inliers
        /\ countCall'.center = "refit" ]_vars

\* a list longer than maxInliers was cut down, one of its entries was drawn
\* twice, and hyp.inliers still is the length the list had
DownSampledWithRepeat ==
  /\ countCall.pc = "idle"
  /\ countCall.refined
  /\ countCall.inliers > countCall.maxInliers
  /\ Len(countCall.inlierPts2D) = countCall.maxInliers
  /\ Cardinality(Range(countCall.inlierPts2D)) < Len(countCall.inlierPts2D)

(***************************************************************************)
(* Properties of the cull of one bucket (CullSpec)                         *)
(***************************************************************************)
\* the bucket held more than one hypothesis and has been sorted and cut
Culled == cullCall.pc = "culled" /\ Len(cullCall.before) > 1

\* the hypothesis inserted as the i-th is still in the bucket
Survives(i) == i \in IdsOf(cullCall.bucket)

\* the hypotheses inserted as the i-th and the j-th have equal inlier counts
\* and one of them has been discarded, the other not
TieCut(i, j) ==
  /\ cullCall.before[i].inliers = cullCall.before[j].inliers
  /\ Survives(i) # Survives(j)

\* C22 as stated: when two hypotheses of a bucket tie and the cull keeps only
\* one of them, it keeps the one inserted earlier
TieKeepsEarlierInserted ==
  Culled =>
    \A i, j \in 1 .. Len(cullCall.before) :
      (i < j /\ TieCut(i, j)) => Survives(i)

\* C22: when two hypotheses of a bucket tie and the cull keeps only one of
\* them, every hypothesis with a higher inlier count is kept and every
\* hypothesis with a lower one is discarded; which of the two is kept is left
\* to the sort
TieDecidedByCountOnly ==
  Culled =>
    \A i, j \in 1 .. Len(cullCall.before) :
      TieCut(i, j) =>
        \A k \in 1 .. Len(cullCall.before) :
          /\ (cullCall.before[k].inliers > cullCall.before[i].inliers) => Survives(k)
          /\ (cullCall.before[k].inliers < cullCall.before[i].inliers) => ~Survives(k)

\* of two hypotheses that tie the later inserted one has been kept and the
\* earlier one discarded, beside a better and a worse hypothesis
TieKeptLaterInserted ==
  /\ Culled
  /\ \E i, j \in 1 .. Len(cullCall.before) :
       /\ i < j
       /\ TieCut(i, j)
       /\ Survives(j)
       /\ \E k, l \in 1 .. Len(cullCall.before) :
            /\ cullCall.before[k].inliers > cullCall.before[i].inliers
            /\ cullCall.before[l].inliers < cullCall.before[i].inliers

====
